---- MODULE Spec2Model ----
(***************************************************************************)
(* Model of simulate_chunks_in_vaults.go: vault naming strategies, chunk   *)
(* placement in the closest group, and the exact statistics over unsigned  *)
(* identifiers.                                                            *)
(*                                                                         *)
(* Identifiers are unsigned integers of Bits bits (the program uses 64);   *)
(* every uint64 operation of the program is taken modulo 2^Bits, and the   *)
(* int64 conversion of math/big modulo 2^Bits in two's complement.         *)
(* Stored is counted in chunks, or in kilobytes for "megabytes".           *)
(***************************************************************************)
EXTENDS Integers, Sequences, FiniteSets, TLC

\* ---------------------------------------------------------------- bounds
Bits == 14
MantBits == 11
totalNodes == 2
totalStored == 2
groupSize == 1
relocations == 1
MaxDraws == 2
MaxNames == 3
MaxNumbers == 3
MaxTotalNodes == 4

\* ------------------------------------------------------------ arithmetic
Two64 == 2 ^ Bits
MaxUint64 == Two64 - 1
\* one sixteenth of the name space: 0x1000000000000000 in the program
Unit == 2 ^ (Bits - 4)

Wrap(x) == ((x % Two64) + Two64) % Two64

RECURSIVE Xor(_, _)
Xor(a, b) ==
    IF a = 0 /\ b = 0 THEN 0
    ELSE (((a % 2) + (b % 2)) % 2) + 2 * Xor(a \div 2, b \div 2)

RECURSIVE SumSeq(_)
SumSeq(s) == IF Len(s) = 0 THEN 0 ELSE Head(s) + SumSeq(Tail(s))

SetMin(S) == CHOOSE x \in S : \A y \in S : x <= y

\* big.Int.Sqrt: floor of the square root, by bisection on [lo, hi)
RECURSIVE SqrtBetween(_, _, _)
SqrtBetween(v, lo, hi) ==
    IF hi - lo <= 1 THEN lo
    ELSE LET mid == (lo + hi) \div 2
         IN  IF mid * mid <= v THEN SqrtBetween(v, mid, hi)
             ELSE SqrtBetween(v, lo, mid)

BigSqrt(v) == SqrtBetween(v, 0, 2 ^ (Bits + 1))

\* big.Int.Int64 of a non-negative value: the low bits, read as signed
\* (math/big leaves the result undefined when the value does not fit; the
\* implementation returns int64(low64(x.abs)))
Int64(v) ==
    LET low == v % Two64
    IN  IF low >= Two64 \div 2 THEN low - Two64 ELSE low

\* ------------------------------------------------------- configuration
NamingStrategies == {"uniform", "random", "bestfit", "quietesthalf", "emptysubsection"}
SpacingStrategies == {"linear", "xordistance"}
StorageUnits == {"chunks", "megabytes"}
Invalid == "invalid"

VARIABLES
    namingStrategy,   \* const namingStrategy
    spacingStrategy,  \* const spacingStrategy
    storageUnits,     \* const storageUnits
    pc,               \* position of main
    i,                \* loop counter of the loop main is in
    nodes,            \* nodes []Node
    out,              \* what main has printed so far
    fn,               \* unit under call: name of the function applied
    args,             \* unit under call: its slice argument
    draws,            \* unit under call: the values rand.Uint64 yields
    res               \* unit under call: what the function returned

vars == <<namingStrategy, spacingStrategy, storageUnits, pc, i, nodes, out,
          fn, args, draws, res>>

\* ------------------------------------------------------------ getSpacing
SpacingLinear(bigName, smallName) == Wrap(bigName - smallName)

SpacingXor(bigName, smallName) == Xor(bigName, smallName)

\* getSpacing under a recognised strategy; the caller tests SpacingPanics
getSpacing(strategy, bigName, smallName) ==
    IF strategy = "linear" THEN SpacingLinear(bigName, smallName)
    ELSE SpacingXor(bigName, smallName)

SpacingPanics(strategy) == strategy \notin SpacingStrategies

\* ------------------------------------------------------------ statistics
averageWrappedSum(numbers) == (SumSeq(numbers) % Two64) \div Len(numbers)

average(numbers) == Wrap(SumSeq(numbers) \div Len(numbers))

SquaredDiffs(numbers, avg) ==
    [k \in 1..Len(numbers) |-> (numbers[k] - avg) * (numbers[k] - avg)]

standardDeviation(numbers) ==
    LET avg == average(numbers)
        totalDiffs == SumSeq(SquaredDiffs(numbers, avg))
        bigDeviation == totalDiffs \div (Len(numbers) - 1)
    IN  Int64(BigSqrt(bigDeviation))

\* ---------------------------------------------------- rejection sampling
\* Index of the first draw the loop condition lets through, 0 when every
\* draw of ds is rejected (the loop is still running when ds runs out).
FirstKept(rejected) ==
    LET kept == {k \in 1..Len(rejected) : ~rejected[k]}
    IN  IF kept = {} THEN 0 ELSE SetMin(kept)

Sampled(ds, rejected) ==
    LET k == FirstKept(rejected)
    IN  [returned |-> k > 0,
         name |-> IF k > 0 THEN ds[k] ELSE 0,
         used |-> IF k > 0 THEN k ELSE Len(ds)]

SortNames(names) == SortSeq(names, <)

\* -------------------------------------------------------- nameForBestFit
\* The loop over the sorted names: gap is [maxSpacing, minName, maxName].
RECURSIVE BestFitScan(_, _, _, _)
BestFitScan(strategy, names, k, gap) ==
    IF k > Len(names) THEN gap
    ELSE LET thisName == names[k]
             previousName == IF k > 1 THEN names[k - 1] ELSE 0
             spacing == getSpacing(strategy, thisName, previousName)
         IN  BestFitScan(strategy, names, k + 1,
                 IF spacing > gap.maxSpacing
                 THEN [maxSpacing |-> spacing, minName |-> previousName,
                       maxName |-> thisName]
                 ELSE gap)

\* The largest gap found, before it is narrowed.
BestFitGap(strategy, names) ==
    IF Len(names) = 0
    THEN [maxSpacing |-> MaxUint64, minName |-> 0, maxName |-> MaxUint64]
    ELSE LET sorted == SortNames(names)
             gap == BestFitScan(strategy, sorted, 1,
                        [maxSpacing |-> 0, minName |-> 0, maxName |-> 0])
             lastName == sorted[Len(sorted)]
             lastSpacing == getSpacing(strategy, MaxUint64, lastName)
         IN  IF lastSpacing > gap.maxSpacing
             THEN [maxSpacing |-> lastSpacing, minName |-> lastName,
                   maxName |-> MaxUint64]
             ELSE gap

\* minName and maxName after "adjust the names to be in a more precise gap"
BestFitNarrowed(gap) ==
    [minName |-> Wrap(gap.minName + (gap.maxSpacing \div 3)),
     maxName |-> Wrap(gap.maxName - (gap.maxSpacing \div 3))]

\* the condition of "for name <= minName && name >= maxName"
BestFitRejects(name, minName, maxName) ==
    name <= minName /\ name >= maxName

nameForBestFit(strategy, names, ds) ==
    IF Len(names) > 0 /\ SpacingPanics(strategy)
    THEN [panic |-> TRUE, returned |-> FALSE, name |-> 0, used |-> 1,
          gap |-> [maxSpacing |-> 0, minName |-> 0, maxName |-> 0],
          minName |-> 0, maxName |-> 0]
    ELSE LET gap == BestFitGap(strategy, names)
             b == BestFitNarrowed(gap)
             s == Sampled(ds, [k \in 1..Len(ds) |->
                                 BestFitRejects(ds[k], b.minName, b.maxName)])
         IN  [panic |-> FALSE, returned |-> s.returned, name |-> s.name,
              used |-> s.used, gap |-> gap,
              minName |-> b.minName, maxName |-> b.maxName]

\* --------------------------------------------------- nameForQuietestHalf
halfway == MaxUint64 \div 2

firstHalfVaults(names) == Cardinality({k \in 1..Len(names) : names[k] < halfway})

secondHalfVaults(names) == Cardinality({k \in 1..Len(names) : ~(names[k] < halfway)})

QuietestHalfRangeTieSecond(names) ==
    IF firstHalfVaults(names) >= secondHalfVaults(names)
    THEN [minName |-> halfway, maxName |-> MaxUint64]
    ELSE [minName |-> 0, maxName |-> halfway]

\* minName and maxName as nameForQuietestHalf sets them
QuietestHalfRange(names) ==
    IF firstHalfVaults(names) > secondHalfVaults(names)
    THEN [minName |-> halfway, maxName |-> MaxUint64]
    ELSE [minName |-> 0, maxName |-> halfway]

\* the condition of "for name <= minName && name >= maxName"
QuietestHalfRejects(name, minName, maxName) ==
    name <= minName /\ name >= maxName

nameForQuietestHalf(names, ds) ==
    LET b == QuietestHalfRange(names)
        s == Sampled(ds, [k \in 1..Len(ds) |->
                            QuietestHalfRejects(ds[k], b.minName, b.maxName)])
    IN  [panic |-> FALSE, returned |-> s.returned, name |-> s.name,
         used |-> s.used, minName |-> b.minName, maxName |-> b.maxName]

\* ------------------------------------------------ nameForEmptySubsection
\* uint64(1) << searchDepth and math.MaxUint64 >> searchDepth
totalSubsections(searchDepth) ==
    IF searchDepth >= Bits THEN 0 ELSE 2 ^ searchDepth

subsectionSize(searchDepth) ==
    IF searchDepth >= Bits THEN 0 ELSE MaxUint64 \div (2 ^ searchDepth)

SubsectionsOverlapping(searchDepth) ==
    LET size == subsectionSize(searchDepth)
    IN  [k \in 1..totalSubsections(searchDepth) |->
            <<Wrap((k - 1) * size), Wrap((k - 1) * size + size)>>]

\* the subsections generated for one searchDepth, as <<start, end>>
Subsections(searchDepth) ==
    LET size == subsectionSize(searchDepth)
    IN  [k \in 1..totalSubsections(searchDepth) |->
            IF totalSubsections(searchDepth) = 1
            THEN <<0, size>>
            ELSE <<Wrap((k - 1) * (size + 1)),
                   Wrap(Wrap((k - 1) * (size + 1)) + size)>>]

\* a subsection counted as empty when no name lies strictly above its start
IsEmptySubsectionOpenStart(subsection, names) ==
    \A k \in 1..Len(names) :
        ~(names[k] > subsection[1] /\ names[k] <= subsection[2])

IsEmptySubsection(subsection, names) ==
    \A k \in 1..Len(names) :
        ~(names[k] >= subsection[1] /\ names[k] <= subsection[2])

EmptyAmong(subsections, names) ==
    SelectSeq(subsections, LAMBDA sub : IsEmptySubsection(sub, names))

\* The search loop: the depth it stops at and the empty subsections found
\* there; depth -1 when no depth below the width of a name has one (the
\* shift then yields no subsection at all and the loop never ends).
RECURSIVE EmptySearch(_, _)
EmptySearch(names, searchDepth) ==
    IF searchDepth > Bits THEN [depth |-> 0 - 1, emptySubsections |-> <<>>]
    ELSE LET found == EmptyAmong(Subsections(searchDepth), names)
         IN  IF Len(found) > 0
             THEN [depth |-> searchDepth, emptySubsections |-> found]
             ELSE EmptySearch(names, searchDepth + 1)

InAnySubsection(name, subsections) ==
    \E k \in 1..Len(subsections) :
        name >= subsections[k][1] /\ name <= subsections[k][2]

nameForEmptySubsection(names, ds) ==
    LET e == EmptySearch(names, 0)
        s == Sampled(ds, [k \in 1..Len(ds) |->
                            ~InAnySubsection(ds[k], e.emptySubsections)])
    IN  [panic |-> FALSE, returned |-> s.returned, name |-> s.name,
         used |-> s.used, depth |-> e.depth,
         emptySubsections |-> e.emptySubsections]

\* -------------------------------------------------------- getAllSpacings
getAllSpacingsNoLast(strategy, names) ==
    [k \in 1..Len(names) |->
        IF k = 1 THEN getSpacing(strategy, names[1], 0)
        ELSE getSpacing(strategy, names[k], names[k - 1])]

\* names are the Names of the nodes, in the order of the slice
getAllSpacings(strategy, names) ==
    [k \in 1..(Len(names) + 1) |->
        IF k = 1 THEN getSpacing(strategy, names[1], 0)
        ELSE IF k <= Len(names) THEN getSpacing(strategy, names[k], names[k - 1])
        ELSE getSpacing(strategy, MaxUint64, names[Len(names)])]

\* ------------------------------------------------------------ addNewNode
\* float64(len(nodes)) / float64(totalNodes), then uint64(float64(MaxUint64)
\* * progress): the quotient is rounded to a significand of MantBits bits
\* (53 in the program), float64(MaxUint64) is 2^Bits exactly.
RECURSIVE BinaryExponent(_, _, _)
BinaryExponent(k, n, e) == IF k * (2 ^ e) >= n THEN e ELSE BinaryExponent(k, n, e + 1)

RoundHalfEven(num, den) ==
    LET q == num \div den
        r == num % den
    IN  IF 2 * r > den \/ (2 * r = den /\ q % 2 = 1) THEN q + 1 ELSE q

uniformNameIntegerDivision(k, n) == Wrap(Two64 * (k \div n))

uniformName(k, n) ==
    IF k = 0 THEN 0
    ELSE LET e == BinaryExponent(k, n, 0)
             scale == 2 ^ (e + MantBits - 1)
             significand == RoundHalfEven(k * scale, n)
         IN  Wrap((significand * Two64) \div scale)

Names(ns) == [k \in 1..Len(ns) |-> ns[k].Name]

NoName == [panic |-> FALSE, returned |-> FALSE, name |-> 0, used |-> 0]

\* the name addNewNode gives the new node, with the draws ds of rand.Uint64
NewNodeName(naming, spacing, ns, ds) ==
    IF naming = "uniform"
    THEN [NoName EXCEPT !.returned = TRUE, !.name = uniformName(Len(ns), totalNodes)]
    ELSE IF naming \notin NamingStrategies
    THEN [NoName EXCEPT !.panic = TRUE]
    ELSE IF Len(ds) = 0 THEN NoName
    ELSE IF naming = "random"
    THEN [NoName EXCEPT !.returned = TRUE, !.name = ds[1], !.used = 1]
    ELSE LET r == IF naming = "bestfit"
                  THEN nameForBestFit(spacing, Names(ns), ds)
                  ELSE IF naming = "quietesthalf"
                  THEN nameForQuietestHalf(Names(ns), ds)
                  ELSE nameForEmptySubsection(Names(ns), ds)
         IN  [panic |-> r.panic, returned |-> r.returned, name |-> r.name,
              used |-> r.used]

Node(name) == [Name |-> name, CurrentChunk |-> 0, Stored |-> 0]

addNewNode(ns, name) == Append(ns, Node(name))

\* ------------------------------------------------------ removeRandomNode
removeRandomNodeTwo(ns, index) ==
    [k \in 1..(Len(ns) - 2) |-> IF k < index THEN ns[k] ELSE ns[k + 2]]

\* index counts from 1 here: append(nodes[0:index], nodes[index+1:]...)
removeRandomNode(ns, index) ==
    [k \in 1..(Len(ns) - 1) |-> IF k < index THEN ns[k] ELSE ns[k + 1]]

\* ----------------------------------------------------------------- sorts
Reordered(ns, p) == [k \in 1..Len(ns) |-> ns[p[k]]]

\* every order sort.Sort may leave the slice in (it is not stable), keys[k]
\* being what Less compares for ns[k]
SortedBy(ns, keys) ==
    {Reordered(ns, p) : p \in
        {q \in Permutations(1..Len(ns)) :
            \A k \in 1..(Len(ns) - 1) : keys[q[k]] <= keys[q[k + 1]]}}

LinearDistance(a, b) == IF a >= b THEN a - b ELSE b - a

ByConfiguredDistanceKey(spacing, n) ==
    IF spacing = "linear" THEN LinearDistance(n.Name, n.CurrentChunk)
    ELSE Xor(n.Name, n.CurrentChunk)

\* ByXorDistance.Less compares a[i].Name ^ a[i].CurrentChunk
ByXorDistanceKey(spacing, n) == Xor(n.Name, n.CurrentChunk)

ByNodeNameKey(n) == n.Name

ByXorDistance(ns) ==
    SortedBy(ns, [k \in 1..Len(ns) |-> ByXorDistanceKey(spacingStrategy, ns[k])])

ByNodeName(ns) == SortedBy(ns, [k \in 1..Len(ns) |-> ByNodeNameKey(ns[k])])

WithCurrentChunk(ns, chunkName) ==
    [k \in 1..Len(ns) |-> [ns[k] EXCEPT !.CurrentChunk = chunkName]]

\* ---------------------------------------------------- getRandomChunkSize
\* sizes in kilobytes: the least value of the first bucket and the "1000+"
\* bucket, which is exactly 1 MB
ChunkSizes == {0, 1000}

StoreSkippingFirst(ns, amounts) ==
    [k \in 1..Len(ns) |->
        IF k > 1 /\ k <= Len(amounts)
        THEN [ns[k] EXCEPT !.Stored = ns[k].Stored + amounts[k]]
        ELSE ns[k]]

\* the loop "for j := 0; j < groupSize; j++ { nodes[j].Stored += ... }"
\* with amounts[j] the amount added at j
Store(ns, amounts) ==
    [k \in 1..Len(ns) |->
        IF k <= Len(amounts)
        THEN [ns[k] EXCEPT !.Stored = ns[k].Stored + amounts[k]]
        ELSE ns[k]]

\* ------------------------------------------------------------------ main
\* the values rand.Uint64 yields in a run of main
RandVals == {0, 4 * Unit, 8 * Unit, 12 * Unit}

DrawSeqs(vals, maxLen) == UNION {[1..n -> vals] : n \in 0..maxLen}

\* runTests: the fixtures
TestNames ==
    [k \in 1..14 |->
        (IF k <= 4 THEN k - 1 ELSE IF k <= 10 THEN k ELSE k + 1) * Unit + 3]

emptyA == <<4 * Unit, 5 * Unit - 1>>

emptyB == <<11 * Unit, 12 * Unit - 1>>

StatisticsTestsPass ==
    /\ standardDeviation(<<5, 5, 5>>) = 0
    /\ standardDeviation(<<1000, 3000, 7000>>) = 3055
    /\ standardDeviation(<<MaxUint64, MaxUint64 - 99, MaxUint64 - 9999>>) = 5744
    /\ average(<<5, 5, 5>>) = 5
    /\ average(<<1000, 3000, 7000>>) = 3666
    /\ average(<<MaxUint64, MaxUint64 - 99, MaxUint64 - 9999>>) = MaxUint64 - 3366

EmptySubsectionTestPasses(name) ==
    \/ (name >= emptyA[1] /\ name <= emptyA[2])
    \/ (name >= emptyB[1] /\ name <= emptyB[2])

Printed(kind, data) == [kind |-> kind, data |-> data]

AfterRelocations == IF totalStored > 0 THEN "place" ELSE "report"

AfterCreate ==
    IF namingStrategy # "uniform" /\ relocations > 0 THEN "remove"
    ELSE AfterRelocations

UnitIdle == fn = "main" /\ args = <<>> /\ draws = <<>> /\ res = <<>>

Init ==
    /\ namingStrategy \in NamingStrategies \cup {Invalid}
    /\ spacingStrategy \in SpacingStrategies \cup {Invalid}
    /\ storageUnits \in StorageUnits \cup {Invalid}
    /\ pc = "tests"
    /\ i = 0
    /\ nodes = <<>>
    /\ out = <<>>
    /\ UnitIdle

RunTests ==
    /\ pc = "tests"
    /\ \E ds \in DrawSeqs(RandVals, MaxDraws) :
        IF ~StatisticsTestsPass
        THEN ds = <<>> /\ pc' = "panic"
        ELSE LET r == nameForEmptySubsection(TestNames, ds)
             IN  /\ r.returned /\ r.used = Len(ds)
                 /\ pc' = IF EmptySubsectionTestPasses(r.name)
                          THEN "echo" ELSE "panic"
    /\ UNCHANGED <<namingStrategy, spacingStrategy, storageUnits, i, nodes, out,
                   fn, args, draws, res>>

EchoSilent ==
    /\ pc = "echo"
    /\ pc' = IF totalNodes > 0 THEN "create" ELSE AfterCreate
    /\ i' = 0
    /\ UNCHANGED <<namingStrategy, spacingStrategy, storageUnits, nodes, out,
                   fn, args, draws, res>>

\* seed and parameters are printed before any node is created
Echo ==
    /\ pc = "echo"
    /\ out' = Append(out, Printed("config",
                  <<namingStrategy, spacingStrategy, storageUnits>>))
    /\ pc' = IF totalNodes > 0 THEN "create" ELSE AfterCreate
    /\ i' = 0
    /\ UNCHANGED <<namingStrategy, spacingStrategy, storageUnits, nodes,
                   fn, args, draws, res>>

\* nodes = addNewNode(nodes), or the panic it ends in; then main goes on at
\* next with loop counter nextI
AddStep(next, nextI) ==
    \E ds \in DrawSeqs(RandVals, MaxDraws) :
        LET r == NewNodeName(namingStrategy, spacingStrategy, nodes, ds)
        IN  /\ r.panic \/ r.returned
            /\ r.used = Len(ds)
            /\ IF r.panic
               THEN pc' = "panic" /\ UNCHANGED <<nodes, i>>
               ELSE /\ nodes' = addNewNode(nodes, r.name)
                    /\ pc' = next
                    /\ i' = nextI

CreateNode ==
    /\ pc = "create"
    /\ i < totalNodes
    /\ IF i + 1 < totalNodes THEN AddStep("create", i + 1)
       ELSE AddStep(AfterCreate, 0)
    /\ UNCHANGED <<namingStrategy, spacingStrategy, storageUnits, out,
                   fn, args, draws, res>>

RelocateRemove ==
    /\ pc = "remove"
    /\ i < relocations
    /\ Len(nodes) > 0
    /\ \E index \in 1..Len(nodes) : nodes' = removeRandomNode(nodes, index)
    /\ pc' = "add"
    /\ UNCHANGED <<namingStrategy, spacingStrategy, storageUnits, i, out,
                   fn, args, draws, res>>

RelocateAdd ==
    /\ pc = "add"
    /\ IF i + 1 < relocations THEN AddStep("remove", i + 1)
       ELSE AddStep(AfterRelocations, 0)
    /\ UNCHANGED <<namingStrategy, spacingStrategy, storageUnits, out,
                   fn, args, draws, res>>

\* the amounts one chunk adds to nodes[0..groupSize-1]
Amounts ==
    IF storageUnits = "chunks" THEN {[j \in 1..groupSize |-> 1]}
    ELSE [1..groupSize -> ChunkSizes]

\* one iteration of "create chunks"
PlaceChunk ==
    /\ pc = "place"
    /\ i < totalStored
    /\ \E chunkName \in RandVals :
        \E sorted \in ByXorDistance(WithCurrentChunk(nodes, chunkName)) :
            IF storageUnits \notin StorageUnits
            THEN nodes' = sorted /\ pc' = "panic" /\ i' = i
            ELSE \E amounts \in Amounts :
                IF Len(sorted) < groupSize
                THEN \* index out of range once the slice is exhausted
                     /\ nodes' = Store(sorted, SubSeq(amounts, 1, Len(sorted)))
                     /\ pc' = "panic" /\ i' = i
                ELSE /\ nodes' = Store(sorted, amounts)
                     /\ pc' = IF i + 1 < totalStored THEN "place" ELSE "report"
                     /\ i' = IF i + 1 < totalStored THEN i + 1 ELSE 0
    /\ UNCHANGED <<namingStrategy, spacingStrategy, storageUnits, out,
                   fn, args, draws, res>>

Table(ns) == [k \in 1..Len(ns) |-> <<ns[k].Name, ns[k].Stored>>]

Report ==
    /\ pc = "report"
    /\ \E sorted \in ByNodeName(nodes) :
        /\ nodes' = sorted
        /\ IF Len(sorted) = 0 \/ SpacingPanics(spacingStrategy)
           THEN /\ out' = Append(out, Printed("table", Table(sorted)))
                /\ pc' = "panic"
           ELSE LET spacings == getAllSpacings(spacingStrategy, Names(sorted))
                IN  /\ out' = out \o <<Printed("table", Table(sorted)),
                                       Printed("stddev",
                                           <<spacings,
                                             standardDeviation(spacings)>>)>>
                    /\ pc' = "done"
    /\ UNCHANGED <<namingStrategy, spacingStrategy, storageUnits, i,
                   fn, args, draws, res>>

Next ==
    \/ RunTests
    \/ Echo
    \/ CreateNode
    \/ RelocateRemove
    \/ RelocateAdd
    \/ PlaceChunk
    \/ Report

Spec == Init /\ [][Next]_vars

\* -------------------------------------------- the functions, one by one
\* Each function applied once to arguments drawn from bounded sets.
UnitNames == {0, 4 * Unit, halfway, 8 * Unit, MaxUint64}

UnitDraws == {0, 4 * Unit, halfway, 8 * Unit, MaxUint64}

UnitNumbers ==
    {0, 5, 1000, 3000, 7000, MaxUint64 - 9999, MaxUint64 - 99, MaxUint64}

NameSeqs == UNION {[1..n -> UnitNames] : n \in 0..MaxNames} \cup {TestNames}

NumberSeqs == UNION {[1..n -> UnitNumbers] : n \in 1..MaxNumbers}

IsSortedSeq(s) == \A k \in 1..(Len(s) - 1) : s[k] <= s[k + 1]

MainIdle ==
    /\ storageUnits = "chunks"
    /\ pc = "unit"
    /\ i = 0
    /\ nodes = <<>>
    /\ out = <<>>

UnitInit ==
    /\ MainIdle
    /\ spacingStrategy \in SpacingStrategies
    /\ fn = "none"
    /\ res = <<>>
    /\ \/ /\ namingStrategy = "random"
          /\ args \in NameSeqs
          /\ draws \in DrawSeqs(UnitDraws, MaxDraws) \ {<<>>}
       \/ /\ namingStrategy = "random"
          /\ args \in NumberSeqs
          /\ draws = <<>>
       \/ /\ namingStrategy = "uniform"
          /\ args \in {<<n>> : n \in 1..MaxTotalNodes}
          /\ draws = <<>>

Call(name, result) ==
    /\ fn = "none"
    /\ fn' = name
    /\ res' = result
    /\ UNCHANGED <<namingStrategy, spacingStrategy, storageUnits, pc, i, nodes,
                   out, args, draws>>

CallNameForBestFit ==
    /\ draws # <<>>
    /\ Call("nameForBestFit", nameForBestFit(spacingStrategy, args, draws))

CallNameForQuietestHalf ==
    /\ draws # <<>>
    /\ Call("nameForQuietestHalf", nameForQuietestHalf(args, draws))

CallNameForEmptySubsection ==
    /\ draws # <<>>
    /\ Call("nameForEmptySubsection", nameForEmptySubsection(args, draws))

\* the nodes getAllSpacings is given have been sorted by ByNodeName
CallGetAllSpacings ==
    /\ Len(args) > 0
    /\ IsSortedSeq(args)
    /\ Call("getAllSpacings", [spacings |-> getAllSpacings(spacingStrategy, args)])

CallAverage ==
    /\ draws = <<>>
    /\ Len(args) > 0
    /\ Call("average", [value |-> average(args)])

CallStandardDeviation ==
    /\ draws = <<>>
    /\ Len(args) > 1
    /\ Call("standardDeviation", [value |-> standardDeviation(args)])

\* the names the loop "create nodes" gives the nodes under "uniform" when
\* totalNodes is n, in the order of creation
UniformNames(n) == [k \in 1..n |-> uniformName(k - 1, n)]

\* the whole loop "create nodes" of a program whose totalNodes is args[1],
\* and where main goes on after it
CallCreateNodes ==
    /\ namingStrategy = "uniform"
    /\ Call("addNewNode", [names |-> UniformNames(args[1]), next |-> AfterCreate])

UnitNext ==
    \/ CallCreateNodes
    \/ CallNameForBestFit
    \/ CallNameForQuietestHalf
    \/ CallNameForEmptySubsection
    \/ CallGetAllSpacings
    \/ CallAverage
    \/ CallStandardDeviation

SpecUnit == UnitInit /\ [][UnitNext]_vars

\* ================================================================ claims
TotalStored(ns) == SumSeq([k \in 1..Len(ns) |-> ns[k].Stored])

\* main has completed at least one iteration of "create chunks"
ChunkPlaced == (pc = "place" /\ i > 0) \/ pc = "report"

PlacedSoFar == IF pc = "place" THEN i ELSE totalStored

\* one iteration of "create chunks" that ran to its end
PlaceStep == pc = "place" /\ pc' \in {"place", "report"}

\* nodes' is nodes reordered by p with exactly groupSize nodes one chunk up
OneChunkEach(p) ==
    /\ \A k \in 1..Len(nodes) :
        /\ nodes'[k].Name = nodes[p[k]].Name
        /\ nodes'[k].Stored - nodes[p[k]].Stored \in {0, 1}
    /\ Cardinality({k \in 1..Len(nodes) :
                       nodes'[k].Stored = nodes[p[k]].Stored + 1}) = groupSize

\* C1: with storage units "chunks" and at least groupSize nodes, the Stored
\* of all nodes sum to groupSize times the number of chunks placed so far
\* (totalStored * groupSize once the loop is over), and every chunk adds
\* exactly 1 to exactly groupSize nodes and nothing to any other node.
LoadConservation ==
    /\ [](storageUnits = "chunks" /\ Len(nodes) >= groupSize
            /\ pc \in {"place", "report", "done"}
            => TotalStored(nodes) = PlacedSoFar * groupSize)
    /\ [][storageUnits = "chunks" /\ Len(nodes) >= groupSize /\ PlaceStep
            => /\ Len(nodes') = Len(nodes)
               /\ \E p \in Permutations(1..Len(nodes)) : OneChunkEach(p)]_vars

LoadConservationWitness ==
    /\ pc = "done"
    /\ storageUnits = "chunks"
    /\ totalStored > 1
    /\ Len(nodes) > groupSize
    /\ TotalStored(nodes) = totalStored * groupSize
    /\ \E k \in 1..Len(nodes) : nodes[k].Stored = 0

\* After a chunk is placed the slice is in the order the sort left it, the
\* first groupSize nodes are the ones the chunk was added to, and every
\* node's CurrentChunk is the chunk.
Receivers == 1..groupSize

Others == (groupSize + 1)..Len(nodes)

\* C2 as stated: the nodes a chunk is added to are the closest under the
\* configured spacing metric, linear difference under "linear" and XOR
\* under "xordistance".
ClosestGroupByConfiguredMetric ==
    ChunkPlaced /\ spacingStrategy \in SpacingStrategies =>
        \A r \in Receivers : \A o \in Others :
            IF spacingStrategy = "linear"
            THEN LinearDistance(nodes[r].Name, nodes[r].CurrentChunk)
                    <= LinearDistance(nodes[o].Name, nodes[o].CurrentChunk)
            ELSE Xor(nodes[r].Name, nodes[r].CurrentChunk)
                    <= Xor(nodes[o].Name, nodes[o].CurrentChunk)

\* C2 amended: the nodes a chunk is added to are the closest by Name XOR
\* chunk, whatever spacing metric is configured.
ClosestGroupByXor ==
    ChunkPlaced =>
        \A r \in Receivers : \A o \in Others :
            Xor(nodes[r].Name, nodes[r].CurrentChunk)
                <= Xor(nodes[o].Name, nodes[o].CurrentChunk)

ClosestGroupByXorWitness ==
    /\ ChunkPlaced
    /\ spacingStrategy = "linear"
    /\ \E r \in Receivers : \E o \in Others :
        /\ Xor(nodes[r].Name, nodes[r].CurrentChunk)
              < Xor(nodes[o].Name, nodes[o].CurrentChunk)
        /\ LinearDistance(nodes[r].Name, nodes[r].CurrentChunk)
              > LinearDistance(nodes[o].Name, nodes[o].CurrentChunk)

\* C3: once the nodes are created the population holds totalNodes nodes,
\* except between the removal and the addition of one relocation, where it
\* holds totalNodes - 1; a removal takes out exactly one node and keeps
\* the others as they are and in their order.
PopulationSize ==
    /\ [](/\ pc \in {"remove", "place", "report", "done"} => Len(nodes) = totalNodes
          /\ pc = "add" => Len(nodes) = totalNodes - 1)
    /\ [][pc = "remove" /\ pc' = "add"
            => /\ Len(nodes') = Len(nodes) - 1
               /\ \E index \in 1..Len(nodes) :
                    /\ \A k \in 1..(index - 1) : nodes'[k] = nodes[k]
                    /\ \A k \in index..(Len(nodes) - 1) : nodes'[k] = nodes[k + 1]]_vars

PopulationSizeWitness ==
    /\ pc = "add"
    /\ i = relocations - 1
    /\ Len(nodes) = totalNodes - 1

\* ------------------------------------------------- claims on functions
InFirstHalf(name) == name < halfway

Tie == firstHalfVaults(args) = secondHalfVaults(args)

\* C4 as stated: for a non-empty set of names, the name nameForBestFit
\* returns lies strictly between the bounds of the largest gap moved inward
\* by a third of the gap.
BestFitInsideNarrowedGap ==
    fn = "nameForBestFit" /\ Len(args) > 0 /\ res.returned =>
        /\ res.minName = Wrap(res.gap.minName + (res.gap.maxSpacing \div 3))
        /\ res.maxName = Wrap(res.gap.maxName - (res.gap.maxSpacing \div 3))
        /\ res.name > res.minName
        /\ res.name < res.maxName

\* C5 as stated: when one half of the name space holds strictly fewer
\* names than the other, the name nameForQuietestHalf returns lies in the
\* half that holds fewer.
QuietestHalfInQuieterHalf ==
    fn = "nameForQuietestHalf" /\ res.returned /\ ~Tie =>
        IF firstHalfVaults(args) < secondHalfVaults(args)
        THEN InFirstHalf(res.name)
        ELSE ~InFirstHalf(res.name)

\* C6 as stated: when both halves hold the same number of names, the range
\* nameForQuietestHalf chooses is the second half and the name it returns
\* lies in the second half.
QuietestHalfTieSecondHalf ==
    fn = "nameForQuietestHalf" /\ res.returned /\ Tie =>
        /\ res.minName = halfway
        /\ res.maxName = MaxUint64
        /\ ~InFirstHalf(res.name)

\* C6 amended: when both halves hold the same number of names, the range
\* nameForQuietestHalf chooses is the first half, from 0 to halfway, and
\* the name it returns is the first value drawn, in whichever half it lies.
QuietestHalfTieFirstHalf ==
    fn = "nameForQuietestHalf" /\ Tie =>
        /\ res.minName = 0
        /\ res.maxName = halfway
        /\ res.returned
        /\ res.name = draws[1]

QuietestHalfTieFirstHalfWitness ==
    /\ fn = "nameForQuietestHalf"
    /\ Tie
    /\ Len(args) > 1
    /\ res.maxName = halfway
    /\ res.returned
    /\ ~InFirstHalf(res.name)

\* the j-th of the 2^d equal parts of the name space, j from 0
Part(d, j) == <<j * (2 ^ (Bits - d)), (j + 1) * (2 ^ (Bits - d)) - 1>>

PartIsFree(d, j, names) ==
    \A k \in 1..Len(names) : names[k] < Part(d, j)[1] \/ names[k] > Part(d, j)[2]

AsSet(s) == {s[k] : k \in 1..Len(s)}

\* C7: nameForEmptySubsection stops at the least depth d at which one of
\* the 2^d equal parts of the name space holds no name; the subsections it
\* generates at every depth up to d are those parts, which tile the name
\* space; the name it returns lies in a part that is free at depth d; for
\* the 14 names of the test it lies in emptyA or emptyB.
EmptySubsectionPlacement ==
    fn = "nameForEmptySubsection" =>
        /\ res.depth \in 0..Bits
        /\ \A d \in 0..res.depth :
            /\ Len(Subsections(d)) = 2 ^ d
            /\ \A j \in 0..(2 ^ d - 1) : Subsections(d)[j + 1] = Part(d, j)
        /\ \A d \in 0..(res.depth - 1) :
            \A j \in 0..(2 ^ d - 1) : ~PartIsFree(d, j, args)
        /\ AsSet(res.emptySubsections) =
            {Part(res.depth, j) : j \in {h \in 0..(2 ^ res.depth - 1) :
                                            PartIsFree(res.depth, h, args)}}
        /\ res.emptySubsections # <<>>
        /\ res.returned =>
            /\ res.name \in AsSet(draws)
            /\ \E j \in 0..(2 ^ res.depth - 1) :
                /\ PartIsFree(res.depth, j, args)
                /\ res.name >= Part(res.depth, j)[1]
                /\ res.name <= Part(res.depth, j)[2]
        /\ res.returned /\ args = TestNames =>
            \/ res.name \in (4 * Unit)..(5 * Unit - 1)
            \/ res.name \in (11 * Unit)..(12 * Unit - 1)

EmptySubsectionPlacementWitness ==
    /\ fn = "nameForEmptySubsection"
    /\ args = TestNames
    /\ res.depth = 4
    /\ Len(res.emptySubsections) = 2
    /\ res.returned
    /\ res.used > 1

\* C8: for N >= 1 names in ascending order getAllSpacings returns N + 1
\* values: the gap from 0 to the first name, the gap between each name and
\* the one before it, and the gap from the last name to the maximum; under
\* "linear" they sum to the maximum identifier.
SpacingCoverage ==
    fn = "getAllSpacings" =>
        LET N == Len(args)
            sp == res.spacings
        IN  /\ Len(sp) = N + 1
            /\ Len(sp) >= 2
            /\ spacingStrategy = "linear" =>
                /\ \A m \in 1..N : SumSeq(SubSeq(sp, 1, m)) = args[m]
                /\ sp[N + 1] = MaxUint64 - args[N]
                /\ SumSeq(sp) = MaxUint64
            /\ spacingStrategy = "xordistance" =>
                /\ sp[1] = args[1]
                /\ \A m \in 2..N : Xor(sp[m], args[m - 1]) = args[m]
                /\ Xor(sp[N + 1], args[N]) = MaxUint64

SpacingCoverageWitness ==
    /\ fn = "getAllSpacings"
    /\ spacingStrategy = "linear"
    /\ Len(args) = 3
    /\ args[1] > 0 /\ args[1] < args[2] /\ args[2] < args[3] /\ args[3] < MaxUint64
    /\ SumSeq(res.spacings) = MaxUint64

\* the sum of the squared differences from the floored mean, over count - 1
SampleVariance(numbers) ==
    LET mean == SumSeq(numbers) \div Len(numbers)
    IN  SumSeq([k \in 1..Len(numbers) |-> (numbers[k] - mean) ^ 2])
            \div (Len(numbers) - 1)

\* C9 as stated: for at least two values standardDeviation returns the
\* non-negative floored square root of the sample variance.
StandardDeviationExact ==
    fn = "standardDeviation" =>
        /\ res.value >= 0
        /\ res.value * res.value <= SampleVariance(args)
        /\ (res.value + 1) * (res.value + 1) > SampleVariance(args)

\* C10: average returns the floor of the true sum over the count, which
\* lies between the least and the greatest of the values.
AverageExact ==
    fn = "average" =>
        /\ res.value * Len(args) <= SumSeq(args)
        /\ (res.value + 1) * Len(args) > SumSeq(args)
        /\ \E k \in 1..Len(args) : args[k] <= res.value
        /\ \E k \in 1..Len(args) : args[k] >= res.value
        /\ args = <<5, 5, 5>> => res.value = 5
        /\ args = <<1000, 3000, 7000>> => res.value = 3666
        /\ args = <<MaxUint64, MaxUint64 - 99, MaxUint64 - 9999>>
              => res.value = MaxUint64 - 3366

AverageExactWitness ==
    /\ fn = "average"
    /\ args = <<MaxUint64, MaxUint64 - 99, MaxUint64 - 9999>>
    /\ SumSeq(args) > MaxUint64
    /\ res.value = MaxUint64 - 3366

\* --------------------------------------------------------- uniform names
ExactUniformName(k, n) == (Two64 * k) \div n

Created == IF fn = "addNewNode" THEN res.names ELSE <<>>

\* C11 as stated: under "uniform" the k-th call of addNewNode, k from 0,
\* names the node floor(2^64 * k / totalNodes); the names increase
\* strictly, no relocation is run, and for totalNodes = 4 the names are 0,
\* 2^62, 2^63 and 3 * 2^62.
UniformNamesExact ==
    fn = "addNewNode" =>
        /\ \A k \in 1..Len(Created) :
            Created[k] = ExactUniformName(k - 1, args[1])
        /\ \A k \in 1..(Len(Created) - 1) : Created[k] < Created[k + 1]
        /\ res.next \notin {"remove", "add"}
        /\ args[1] = 4 => Created = <<0, 4 * Unit, 8 * Unit, 12 * Unit>>

\* C11 amended: the k-th name is floor(2^64 * p) with p the float64 nearest
\* to k / totalNodes, which is floor(2^64 * k / totalNodes) when totalNodes
\* is a power of two and otherwise within 2^(64-53) of it; the names
\* increase strictly, no relocation is run, and for totalNodes = 4 the
\* names are 0, 2^62, 2^63 and 3 * 2^62.
UniformNamesRounded ==
    fn = "addNewNode" =>
        /\ Len(Created) = args[1]
        /\ \A k \in 1..Len(Created) :
            LET exact == ExactUniformName(k - 1, args[1])
            IN  /\ Created[k] - exact <= 2 ^ (Bits - MantBits)
                /\ exact - Created[k] <= 2 ^ (Bits - MantBits)
                /\ args[1] \in {1, 2, 4, 8} => Created[k] = exact
        /\ \A k \in 1..(Len(Created) - 1) : Created[k] < Created[k + 1]
        /\ res.next \notin {"remove", "add"}
        /\ args[1] = 4 => Created = <<0, 4 * Unit, 8 * Unit, 12 * Unit>>

UniformNamesRoundedWitness ==
    /\ fn = "addNewNode"
    /\ args = <<3>>
    /\ Created[2] # ExactUniformName(1, 3)
    /\ Created[1] < Created[2] /\ Created[2] < Created[3]

\* ------------------------------------------------------ aborted runs
ConfigurationError ==
    \/ namingStrategy \notin NamingStrategies
    \/ SpacingPanics(spacingStrategy)
    \/ storageUnits \notin StorageUnits

Aborted == pc = "panic" /\ ConfigurationError

Emitted(kind) == \E k \in 1..Len(out) : out[k].kind = kind

\* C12 as stated: when a run aborts on a configuration error, no part of
\* the report (configuration echo, table, standard deviation) has been
\* emitted.
NoPartialReport == Aborted => out = <<>>

\* C12 amended: when a run aborts on a configuration error the
\* configuration echo has been emitted and the standard deviation has not;
\* the table has been emitted only when the abort is that of getSpacing in
\* getAllSpacings; an unrecognised naming strategy aborts before any node
\* exists, unrecognised storage units before anything is stored.
PartialReportOnAbort ==
    Aborted =>
        /\ Len(out) >= 1
        /\ out[1].kind = "config"
        /\ ~Emitted("stddev")
        /\ Emitted("table") =>
            /\ SpacingPanics(spacingStrategy)
            /\ namingStrategy \in NamingStrategies
            /\ storageUnits \in StorageUnits
            /\ Len(nodes) = totalNodes
        /\ namingStrategy \notin NamingStrategies => nodes = <<>>
        /\ ~Emitted("table") => \A k \in 1..Len(nodes) : nodes[k].Stored = 0

PartialReportOnAbortWitness ==
    /\ Aborted
    /\ SpacingPanics(spacingStrategy)
    /\ Len(out) = 2
    /\ out[1].kind = "config"
    /\ out[2].kind = "table"
    /\ \E k \in 1..Len(nodes) : nodes[k].Stored > 0


\* ----------------------------------------------------------------- C13
\* a third of the largest spacing, the amount both bounds are moved by
BestFitThird == res.gap.maxSpacing \div 3

\* C13 as stated: for every set of names, the empty one included, and
\* either spacing metric, moving both bounds of the largest gap inward by
\* maxSpacing/3 does not wrap around, leaves minName < maxName with at least
\* one name strictly between them, and leaves a range at least one third
\* as wide as the largest spacing.
BestFitNarrowedRangeValid ==
    fn = "nameForBestFit" /\ ~res.panic =>
        /\ res.gap.minName + BestFitThird <= MaxUint64
        /\ res.gap.maxName >= BestFitThird
        /\ res.minName < res.maxName
        /\ res.maxName - res.minName >= 2
        /\ 3 * (res.maxName - res.minName) >= res.gap.maxSpacing

\* the same statement restricted to the linear metric
BestFitNarrowedRangeValidLinear ==
    fn = "nameForBestFit" /\ ~res.panic /\ spacingStrategy = "linear" =>
        /\ res.gap.minName + BestFitThird <= MaxUint64
        /\ res.gap.maxName >= BestFitThird
        /\ res.minName < res.maxName
        /\ res.maxName - res.minName >= 2
        /\ 3 * (res.maxName - res.minName) >= res.gap.maxSpacing


\* ----------------------------------------------------------------- C14
PairwiseDistinct(names) ==
    \A a, b \in 1..Len(names) : a # b => names[a] # names[b]

\* C14: under "emptysubsection" the names of the nodes are pairwise
\* distinct in every state, while the nodes are created and relocated and
\* afterwards; a step of the placement loop or of the report leaves the
\* names and their number as they are, changing only the order of the nodes
\* and what they store.
EmptySubsectionNamesDistinct ==
    /\ [](namingStrategy = "emptysubsection" => PairwiseDistinct(Names(nodes)))
    /\ [][(pc = "place" \/ pc = "report")
            => (/\ SortNames(Names(nodes')) = SortNames(Names(nodes))
                /\ Len(nodes') = Len(nodes)
                /\ TotalStored(nodes') >= TotalStored(nodes))]_vars

EmptySubsectionNamesDistinctWitness ==
    /\ namingStrategy = "emptysubsection"
    /\ pc = "done"
    /\ Len(nodes) = totalNodes
    /\ Len(nodes) >= 2
    /\ PairwiseDistinct(Names(nodes))
    /\ TotalStored(nodes) > 0
    /\ \E k \in 1..Len(nodes) : nodes[k].Name \notin {0, 8 * Unit}

====
